---------------------------- MODULE Spec2Model ----------------------------
(***************************************************************************)
(* A model of luqum's ElasticsearchQueryBuilder                            *)
(* (src/luqum/elasticsearch/visitor.py): the visitor that compiles a       *)
(* Lucene query tree into a tree of Elasticsearch query items.             *)
(*                                                                         *)
(* Three specifications share the module:                                  *)
(*   Spec         one compilation, computed as the recursive visitor       *)
(*                computes it (the generators of _binary_operation are     *)
(*                consumed lazily, child by child);                        *)
(*   SpecExtract  _get_operator_extract applied to operation texts;        *)
(*   SpecConc     two compilations interleaved on one builder instance,    *)
(*                one visitor call or return per step, items on a heap.    *)
(*                                                                         *)
(* A tree node is a record with a kind (the luqum class name), its         *)
(* children and the payload of its kind.  A node is identified by its      *)
(* path from the root (a sequence of child indices), so that two equal     *)
(* subtrees at different places stay different nodes.                      *)
(***************************************************************************)
EXTENDS Integers, Sequences, FiniteSets, TLC

VARIABLES
    self,       \* the builder instance: the attributes __init__ sets
    tree,       \* Spec: the tree handed to the builder
    pc,         \* Spec: "ready" before the call, "done" after it
    result,     \* Spec: what the call produced (an item or a raised error)
    delta,      \* SpecExtract: the delta handed to _get_operator_extract
    roots,      \* SpecConc: the tree each compilation was handed
    stack,      \* SpecConc: each compilation's stack of visitor calls
    heap,       \* SpecConc: the items built so far, by address (shared allocator)
    ret         \* SpecConc: what each compilation returned or raised

vars == <<self, tree, pc, result, delta, roots, stack, heap, ret>>

\* The variables of the interleaved compilations, and the others.
conc == <<roots, stack, heap, ret>>
single == <<tree, pc, result, delta>>

----------------------------------------------------------------------------
(* Bounds of the model. *)

\* Trees of every kind are enumerated up to this number of nodes.
MaxNodes == 4

\* Trees of boolean operations, groups, negations and one field over one word
\* are enumerated up to this number of nodes.
MaxBoolNodes == 5

\* Operand texts over {a, b} are enumerated up to this length (SpecExtract).
MaxWordLen == 2

\* The first of two interleaved compilations runs on every tree of up to this
\* number of nodes (SpecConc).
MaxConcNodes == 2

----------------------------------------------------------------------------
(* The builder's class constants. *)

SHOULD == "should"
MUST == "must"

\* The default of _get_operator_extract's delta.
DefaultDelta == 8

----------------------------------------------------------------------------
(* The input tree: luqum.tree node kinds, as the visitor reads them. *)

Word(value) == [kind |-> "Word", children |-> <<>>, value |-> value]
Phrase(value) == [kind |-> "Phrase", children |-> <<>>, value |-> value]
Range(low, high, include_low, include_high) ==
    [kind |-> "Range", children |-> <<>>, low |-> low, high |-> high,
     include_low |-> include_low, include_high |-> include_high]
AndOperation(children) == [kind |-> "AndOperation", children |-> children]
OrOperation(children) == [kind |-> "OrOperation", children |-> children]
UnknownOperation(children) == [kind |-> "UnknownOperation", children |-> children]
Not(a) == [kind |-> "Not", children |-> <<a>>]
Prohibit(a) == [kind |-> "Prohibit", children |-> <<a>>]
Plus(a) == [kind |-> "Plus", children |-> <<a>>]
Group(expr) == [kind |-> "Group", children |-> <<expr>>]
FieldGroup(expr) == [kind |-> "FieldGroup", children |-> <<expr>>]
SearchField(name, expr) == [kind |-> "SearchField", children |-> <<expr>>, name |-> name]
Boost(expr, force) == [kind |-> "Boost", children |-> <<expr>>, force |-> force]
Fuzzy(term, degree) == [kind |-> "Fuzzy", children |-> <<term>>, degree |-> degree]
Proximity(term, degree) == [kind |-> "Proximity", children |-> <<term>>, degree |-> degree]

\* The node of `root` at path p.
RECURSIVE NodeAt(_, _)
NodeAt(root, p) ==
    IF p = <<>> THEN root ELSE NodeAt(root.children[Head(p)], Tail(p))

\* node.children, as paths.
ChildPaths(root, p) ==
    [i \in 1..Len(NodeAt(root, p).children) |-> Append(p, i)]

\* Every path of `root`, the root's own included.
RECURSIVE PathsFrom(_, _)
PathsFrom(node, p) ==
    {p} \cup UNION {PathsFrom(node.children[i], Append(p, i)) : i \in 1..Len(node.children)}

Paths(root) == PathsFrom(root, <<>>)

IsPrefix(p, q) == Len(p) <= Len(q) /\ SubSeq(q, 1, Len(p)) = p
IsProperPrefix(p, q) == Len(p) < Len(q) /\ SubSeq(q, 1, Len(p)) = p

----------------------------------------------------------------------------
(* The item model (luqum.elasticsearch.tree) and its factory. *)

NoItem == [kind |-> "None"]
NoError == [exc |-> "None"]

LeafKinds == {"EWord", "EPhrase", "ERange"}

\* isinstance(enode, AbstractEItem)
IsAbstractEItem(enode) == enode.kind \in LeafKinds

\* es_item_factory.build(cls, ...) for a leaf class: the keyword arguments the
\* visitor passes, and the item's own empty `fields` list.  `origin` is a
\* history field (the path of the node the item was built from); nothing reads
\* it but the properties.
BuildLeaf(cls, kwargs, origin) ==
    [kind |-> cls, fields |-> <<>>, origin |-> origin] @@ kwargs

\* es_item_factory.build(cls, items) for EMust, EShould, EMustNot.
BuildOperation(cls, items) == [kind |-> cls, items |-> items]

\* es_item_factory.build(ENested, nested_path=..., items=enode)
BuildNested(nested_path, items) ==
    [kind |-> "ENested", nested_path |-> nested_path, items |-> items]

\* The items a `for item in enode.items` runs through: the child list of a
\* boolean operation, the one wrapped item of a nested item.
ItemsOf(enode) == IF enode.kind = "ENested" THEN <<enode.items>> ELSE enode.items

WithItems(enode, items) ==
    IF enode.kind = "ENested" THEN [enode EXCEPT !.items = items[1]]
    ELSE [enode EXCEPT !.items = items]

\* obj.name = value on a Python object: the attribute is added or overwritten.
SetAttr(obj, name, value) == (name :> value) @@ obj

\* float(x) of a numeric token.
Float(x) == [float |-> x]

\* An item's effective search field: its pushed names joined with dots, the
\* default field it was built with when nothing was pushed.
RECURSIVE DottedJoin(_)
DottedJoin(names) ==
    IF Len(names) = 0 THEN ""
    ELSE IF Len(names) = 1 THEN names[1]
    ELSE names[1] \o "." \o DottedJoin(Tail(names))

NotConfigured == "<item class default>"

EffectiveField(item) ==
    IF item.fields # <<>> THEN DottedJoin(item.fields)
    ELSE IF "default_field" \in DOMAIN item THEN item.default_field
    ELSE NotConfigured

----------------------------------------------------------------------------
(* Results of a visitor call.  `log` is a history of the call: one "visit"  *)
(* event per visitor call, in call order, and a "raise" event where the    *)
(* exception was raised.                                                   *)

Ok(item, log) == [ok |-> TRUE, item |-> item, error |-> NoError, log |-> log]
Raised(error, log) == [ok |-> FALSE, item |-> NoItem, error |-> error, log |-> log]

VisitEvent(p) == [ev |-> "visit", at |-> p, child |-> <<>>]
RaiseEvent(parent, child) == [ev |-> "raise", at |-> parent, child |-> child]

\* OrAndAndOnSameLevel(self._get_operator_extract(child)): the exception is
\* represented by the operation its extract is taken from; the extract's text
\* is computed by _get_operator_extract below (SpecExtract).
OrAndAndOnSameLevel(child) == [exc |-> "OrAndAndOnSameLevel", extract_of |-> child]

----------------------------------------------------------------------------
(* The visitor, one operator per method.  `slf` is the builder instance,   *)
(* `root` the tree being compiled and p the path of the node visited.      *)

RECURSIVE Visit(_, _, _)

\* simplify_if_same(children, current_node): the children, with every child of
\* current_node's own type replaced by its (simplified) children.  `children`
\* are paths; `current` is the path of current_node.
RECURSIVE simplify_if_same(_, _, _)
simplify_if_same(root, children, current) ==
    IF children = <<>> THEN <<>>
    ELSE LET child == Head(children) IN
         (IF NodeAt(root, child).kind = NodeAt(root, current).kind
              THEN simplify_if_same(root, ChildPaths(root, child), current)
              ELSE <<child>>)
         \o simplify_if_same(root, Tail(children), current)

\* A faulty variant: the default operator is not consulted.
_is_must_explicit_only(slf, operation) == operation.kind = "AndOperation"

_is_must(slf, operation) ==
    \/ operation.kind = "AndOperation"
    \/ operation.kind = "UnknownOperation" /\ slf.default_operator = MUST

_is_should(slf, operation) ==
    \/ operation.kind = "OrOperation"
    \/ operation.kind = "UnknownOperation" /\ slf.default_operator = SHOULD

\* _yield_nested_children(parent, children), at one child: TRUE when the
\* generator raises OrAndAndOnSameLevel there, FALSE when it yields the child.
_yield_nested_children(slf, parent, child) ==
    \/ _is_should(slf, parent) /\ _is_must(slf, child)
    \/ _is_must(slf, parent) /\ _is_should(slf, child)

\* A faulty variant: every child is validated before the first is visited.
RECURSIVE VisitChildren_validated_first(_, _, _, _, _, _, _)
VisitChildren_validated_first(slf, root, parent, children, validated, items, log) ==
    LET bad == {i \in 1..Len(children) :
                   _yield_nested_children(slf, NodeAt(root, parent),
                                          NodeAt(root, children[i]))}
        first == CHOOSE i \in bad : \A j \in bad : i <= j
    IN  IF validated /\ bad # {}
        THEN Raised(OrAndAndOnSameLevel(NodeAt(root, children[first])),
                    Append(log, RaiseEvent(parent, children[first])))
        ELSE IF children = <<>> THEN Ok(items, log)
        ELSE LET r == Visit(slf, root, Head(children)) IN
             IF ~r.ok THEN Raised(r.error, log \o r.log)
             ELSE VisitChildren_validated_first(slf, root, parent, Tail(children), FALSE,
                                                Append(items, r.item), log \o r.log)

\* [self.visit(child, parents + [node]) for child in children]: the list
\* comprehension pulls one child at a time from the generators and visits it
\* before the next is pulled.  `validated` says whether the children come
\* through _yield_nested_children (_binary_operation) or straight from
\* simplify_if_same (visit_not).  items and log accumulate.
RECURSIVE VisitChildren(_, _, _, _, _, _, _)
VisitChildren(slf, root, parent, children, validated, items, log) ==
    IF children = <<>> THEN Ok(items, log)
    ELSE LET child == Head(children) IN
         IF validated /\ _yield_nested_children(slf, NodeAt(root, parent), NodeAt(root, child))
         THEN Raised(OrAndAndOnSameLevel(NodeAt(root, child)),
                     Append(log, RaiseEvent(parent, child)))
         ELSE LET r == Visit(slf, root, child) IN
              IF ~r.ok THEN Raised(r.error, log \o r.log)
              ELSE VisitChildren(slf, root, parent, Tail(children), validated,
                                 Append(items, r.item), log \o r.log)

_binary_operation(cls, slf, root, p) ==
    LET children == simplify_if_same(root, ChildPaths(root, p), p)
        r == VisitChildren(slf, root, p, children, TRUE, <<>>, <<>>)
    IN  IF r.ok THEN Ok(BuildOperation(cls, r.item), r.log) ELSE r

_must_operation(slf, root, p) == _binary_operation("EMust", slf, root, p)

_should_operation(slf, root, p) == _binary_operation("EShould", slf, root, p)

visit_and_operation(slf, root, p) == _must_operation(slf, root, p)

visit_or_operation(slf, root, p) == _should_operation(slf, root, p)

visit_word(slf, root, p) ==
    Ok(BuildLeaf("EWord",
                 [q |-> NodeAt(root, p).value, default_field |-> slf.default_field], p),
       <<>>)

\* A faulty variant: the name is appended to `fields`, not inserted in front.
RECURSIVE _set_search_field_appended(_, _)
_set_search_field_appended(enode, field_name) ==
    IF IsAbstractEItem(enode)
    THEN [enode EXCEPT !.fields = Append(@, field_name)]
    ELSE WithItems(enode,
                   [i \in 1..Len(ItemsOf(enode)) |->
                       _set_search_field_appended(ItemsOf(enode)[i], field_name)])

\* _set_search_field_in_all_children(enode, field_name): enode.fields.insert(0,
\* field_name) on every leaf item under enode; the item tree with that done.
RECURSIVE _set_search_field_in_all_children(_, _)
_set_search_field_in_all_children(enode, field_name) ==
    IF IsAbstractEItem(enode)
    THEN [enode EXCEPT !.fields = <<field_name>> \o @]
    ELSE WithItems(enode,
                   [i \in 1..Len(ItemsOf(enode)) |->
                       _set_search_field_in_all_children(ItemsOf(enode)[i], field_name)])

\* A faulty variant: only the node's own children are looked at.
_is_nested_direct_children(slf, node) ==
    \E i \in 1..Len(node.children) : node.children[i].kind = "SearchField"

RECURSIVE _is_nested(_, _)
_is_nested(slf, node) ==
    \E i \in 1..Len(node.children) :
        \/ node.children[i].kind = "SearchField"
        \/ _is_nested(slf, node.children[i])

visit_search_field(slf, root, p) ==
    LET node == NodeAt(root, p)
        r == Visit(slf, root, Append(p, 1))
    IN  IF ~r.ok THEN r
        ELSE IF _is_nested(slf, node)
        THEN LET enode == BuildNested(node.name, r.item) IN
             Ok([enode EXCEPT
                    !.items = _set_search_field_in_all_children(enode.items, node.name)],
                r.log)
        ELSE Ok(_set_search_field_in_all_children(r.item, node.name), r.log)

visit_not(slf, root, p) ==
    LET children == simplify_if_same(root, ChildPaths(root, p), p)
        r == VisitChildren(slf, root, p, children, FALSE, <<>>, <<>>)
    IN  IF r.ok THEN Ok(BuildOperation("EMustNot", r.item), r.log) ELSE r

visit_prohibit(slf, root, p) == visit_not(slf, root, p)

visit_plus(slf, root, p) == _must_operation(slf, root, p)

visit_unknown_operation(slf, root, p) ==
    IF slf.default_operator = SHOULD THEN _should_operation(slf, root, p)
    ELSE IF slf.default_operator = MUST THEN _must_operation(slf, root, p)
    ELSE Ok(NoItem, <<>>)

visit_boost(slf, root, p) ==
    LET r == Visit(slf, root, Append(p, 1)) IN
    IF ~r.ok THEN r ELSE Ok(SetAttr(r.item, "boost", Float(NodeAt(root, p).force)), r.log)

visit_fuzzy(slf, root, p) ==
    LET r == Visit(slf, root, Append(p, 1)) IN
    IF ~r.ok THEN r
    ELSE Ok(SetAttr(r.item, "fuzziness", Float(NodeAt(root, p).degree)), r.log)

visit_proximity(slf, root, p) ==
    LET r == Visit(slf, root, Append(p, 1)) IN
    IF ~r.ok THEN r ELSE Ok(SetAttr(r.item, "slop", Float(NodeAt(root, p).degree)), r.log)

visit_phrase(slf, root, p) ==
    Ok(BuildLeaf("EPhrase",
                 [phrase |-> NodeAt(root, p).value, default_field |-> slf.default_field], p),
       <<>>)

visit_range(slf, root, p) ==
    LET node == NodeAt(root, p)
        kwargs == ((IF node.include_low THEN "gte" ELSE "gt") :> node.low)
                  @@ ((IF node.include_high THEN "lte" ELSE "lt") :> node.high)
    IN  Ok(BuildLeaf("ERange", kwargs, p), <<>>)

visit_group(slf, root, p) == Visit(slf, root, Append(p, 1))

visit_field_group(slf, root, p) == Visit(slf, root, Append(p, 1))

\* self.visit(node, parents): the dispatch on the node's class.
Visit(slf, root, p) ==
    LET kind == NodeAt(root, p).kind
        r == CASE kind = "AndOperation" -> visit_and_operation(slf, root, p)
               [] kind = "OrOperation" -> visit_or_operation(slf, root, p)
               [] kind = "UnknownOperation" -> visit_unknown_operation(slf, root, p)
               [] kind = "Word" -> visit_word(slf, root, p)
               [] kind = "Phrase" -> visit_phrase(slf, root, p)
               [] kind = "Range" -> visit_range(slf, root, p)
               [] kind = "SearchField" -> visit_search_field(slf, root, p)
               [] kind = "Not" -> visit_not(slf, root, p)
               [] kind = "Prohibit" -> visit_prohibit(slf, root, p)
               [] kind = "Plus" -> visit_plus(slf, root, p)
               [] kind = "Boost" -> visit_boost(slf, root, p)
               [] kind = "Fuzzy" -> visit_fuzzy(slf, root, p)
               [] kind = "Proximity" -> visit_proximity(slf, root, p)
               [] kind = "Group" -> visit_group(slf, root, p)
               [] kind = "FieldGroup" -> visit_field_group(slf, root, p)
    IN  [r EXCEPT !.log = <<VisitEvent(p)>> \o @]

----------------------------------------------------------------------------
(* The builder's constructor. *)

None == <<>>

\* __init__: a missing (or empty) field list becomes the empty list.
Builder(default_operator, default_field, not_analyzed_fields, nested_fields) ==
    [default_operator |-> default_operator,
     default_field |-> default_field,
     not_analyzed_fields |-> IF not_analyzed_fields # None THEN not_analyzed_fields ELSE <<>>,
     nested_fields |-> IF nested_fields # None THEN nested_fields ELSE <<>>]

Builders ==
    {Builder(o, f, None, n) : o \in {SHOULD, MUST}, f \in {"text", "body"},
                              n \in {None, <<"f">>}}

----------------------------------------------------------------------------
(* The trees compiled. *)

WordA == Word("a")
PhraseP == Phrase("p")
RangeR == Range(1, 10, TRUE, FALSE)

Leaves == {WordA, PhraseP, RangeR}

Wrap(k, t) ==
    CASE k = "Not" -> Not(t)
      [] k = "Prohibit" -> Prohibit(t)
      [] k = "Plus" -> Plus(t)
      [] k = "Group" -> Group(t)
      [] k = "Boost" -> Boost(t, 2)
      [] k = "f" -> SearchField("f", t)
      [] k = "g" -> SearchField("g", t)

Binary(k, a, b) ==
    CASE k = "AndOperation" -> AndOperation(<<a, b>>)
      [] k = "OrOperation" -> OrOperation(<<a, b>>)
      [] k = "UnknownOperation" -> UnknownOperation(<<a, b>>)

OperationKinds == {"AndOperation", "OrOperation", "UnknownOperation"}

\* Every tree of exactly n nodes the parser can produce from the kinds above:
\* Fuzzy holds a Word, Proximity a Phrase, FieldGroup is the expression of a
\* SearchField, operations are binary.
TreesOfSize[n \in 1..(MaxNodes + 1)] ==
    IF n = 1 THEN Leaves
    ELSE {Wrap(k, t) : k \in {"Not", "Prohibit", "Plus", "Group", "Boost", "f", "g"},
                       t \in TreesOfSize[n - 1]}
         \cup (IF n = 2 THEN {Fuzzy(WordA, 1), Proximity(PhraseP, 1)} ELSE {})
         \cup (IF n >= 3
               THEN {SearchField(f, FieldGroup(t)) : f \in {"f", "g"}, t \in TreesOfSize[n - 2]}
               ELSE {})
         \cup UNION {{Binary(k, a, b) : k \in OperationKinds,
                                       a \in TreesOfSize[i], b \in TreesOfSize[n - 1 - i]}
                     : i \in 1..(n - 2)}

SmallTrees == UNION {TreesOfSize[n] : n \in 1..MaxNodes}

\* The deeper trees: operations nested in operations, directly or through a
\* Group, a Not, a Plus or a SearchField.
BoolTreesOfSize[n \in 1..(MaxBoolNodes + 1)] ==
    IF n = 1 THEN {WordA}
    ELSE {Wrap(k, t) : k \in {"Not", "Plus", "Group", "f"}, t \in BoolTreesOfSize[n - 1]}
         \cup UNION {{Binary(k, a, b) : k \in OperationKinds,
                                       a \in BoolTreesOfSize[i],
                                       b \in BoolTreesOfSize[n - 1 - i]}
                     : i \in 1..(n - 2)}

BoolTrees == UNION {BoolTreesOfSize[n] : n \in 1..MaxBoolNodes}

\* The queries the documentation and the tests name.
QueryAndNested ==       \* AndOperation nested in AndOperation, no parentheses
    AndOperation(<<Word("A"), AndOperation(<<Word("B"),
                   AndOperation(<<Word("C"), Word("D")>>)>>)>>)
QueryAndGrouped ==      \* A AND (B AND (C AND D))
    AndOperation(<<Word("A"), Group(AndOperation(<<Word("B"),
                   Group(AndOperation(<<Word("C"), Word("D")>>))>>))>>)
QueryNotNot == Not(Not(Word("A")))                          \* NOT NOT A
QueryOrGroupAnd ==      \* a OR (b AND c)
    OrOperation(<<Word("a"), Group(AndOperation(<<Word("b"), Word("c")>>))>>)
QueryOrAnd ==           \* a OR b AND c
    OrOperation(<<Word("a"), AndOperation(<<Word("b"), Word("c")>>)>>)
QueryUnknown == UnknownOperation(<<Word("a"), Word("b")>>)  \* a b
QueryTitle == SearchField("title", Word("Phoenix"))         \* title:Phoenix
QueryFieldGroup ==      \* title:(Phoenix AND Potter)
    SearchField("title", FieldGroup(AndOperation(<<Word("Phoenix"), Word("Potter")>>)))
QueryNested ==          \* illustrators:(nationality:UK)
    SearchField("illustrators", FieldGroup(SearchField("nationality", Word("UK"))))
QueryNested3 ==         \* f:(g:(h:x OR y))
    SearchField("f", FieldGroup(SearchField("g", FieldGroup(
        OrOperation(<<SearchField("h", Word("x")), Word("y")>>)))))
QuerySiblingFirst ==    \* (x OR y AND z) AND p OR q
    AndOperation(<<Group(OrOperation(<<Word("x"),
                          AndOperation(<<Word("y"), Word("z")>>)>>)),
                   OrOperation(<<Word("p"), Word("q")>>)>>)
QueryThree ==           \* a AND b AND c OR d
    AndOperation(<<Word("a"), Word("b"), OrOperation(<<Word("c"), Word("d")>>)>>)
QueryAndUnknown ==      \* a AND b c
    AndOperation(<<Word("a"), UnknownOperation(<<Word("b"), Word("c")>>)>>)
QueryRange == Range(1, 10, TRUE, TRUE)                      \* [1 TO 10]

Samples ==
    {QueryAndNested, QueryAndGrouped, QueryNotNot, QueryOrGroupAnd, QueryOrAnd,
     QueryUnknown, QueryTitle, QueryFieldGroup, QueryNested, QueryNested3,
     QuerySiblingFirst, QueryThree, QueryAndUnknown, QueryRange}

Trees == SmallTrees \cup BoolTrees \cup Samples

----------------------------------------------------------------------------
(* Spec: one call of the builder on one tree. *)

Init ==
    /\ self \in Builders
    /\ tree \in Trees
    /\ pc = "ready"
    /\ result = Ok(NoItem, <<>>)
    /\ delta = DefaultDelta
    /\ roots = <<>> /\ stack = <<>> /\ heap = <<>> /\ ret = <<>>

\* builder(tree): the visitor run from the root.
Compile ==
    /\ pc = "ready"
    /\ result' = Visit(self, tree, <<>>)
    /\ pc' = "done"
    /\ UNCHANGED <<self, tree, delta, conc>>

Next == Compile

Spec == Init /\ [][Next]_vars

----------------------------------------------------------------------------
(* SpecExtract: _get_operator_extract on the text of an operation.  A text *)
(* is a sequence of characters.                                            *)

Min(a, b) == IF a <= b THEN a ELSE b

\* s.find(sub): the lowest index (from 0) where sub occurs in s, -1 if none.
Find(s, sub) ==
    LET at == {i \in 0..(Len(s) - Len(sub)) : SubSeq(s, i + 1, i + Len(sub)) = sub}
    IN  IF at = {} THEN -1 ELSE CHOOSE i \in at : \A j \in at : i <= j

\* s[start:end] for start, end >= 0.
Slice(s, start, end) == SubSeq(s, start + 1, Min(end, Len(s)))

\* The operator as str() writes it between two operands.
Separator(node) ==
    IF node.kind = "AndOperation" THEN <<" ", "A", "N", "D", " ">>
    ELSE <<" ", "O", "R", " ">>

\* str(node) of a word and of an operation on words: 'Python OR Monty'.
RECURSIVE Joined(_, _)
Joined(texts, sep) ==
    IF Len(texts) = 1 THEN texts[1] ELSE texts[1] \o sep \o Joined(Tail(texts), sep)

Str(node) ==
    IF node.kind = "Word" THEN node.value
    ELSE Joined([i \in 1..Len(node.children) |-> node.children[i].value], Separator(node))

_get_operator_extract(binary_operation, dlt) ==
    LET node_str == Str(binary_operation)
        child_str_1 == Str(binary_operation.children[1])
        child_str_2 == Str(binary_operation.children[2])
        middle_length == Len(node_str) - Len(child_str_1) - Len(child_str_2)
        position == Find(node_str, child_str_2)
        start == IF position - middle_length - dlt >= 0
                 THEN position - middle_length - dlt
                 ELSE 0
        end == position + dlt
    IN  Slice(node_str, start, end)

RECURSIVE TextsOfLen(_)
TextsOfLen(n) ==
    IF n = 0 THEN {<<>>}
    ELSE {Append(t, c) : t \in TextsOfLen(n - 1), c \in {"a", "b"}}

\* The operand texts: the short ones, and two longer than the default delta.
Texts ==
    UNION {TextsOfLen(n) : n \in 1..MaxWordLen}
    \cup {[i \in 1..(DefaultDelta + 1) |-> "a"],
          [i \in 1..(DefaultDelta + 4) |-> IF i % 2 = 1 THEN "a" ELSE "b"]}

\* The operations an extract is taken from: And and Or of two words, and of
\* three (an operation whose same-kind child was written without parentheses).
ExtractOperations ==
    {Binary(k, Word(t1), Word(t2)) :
        k \in {"AndOperation", "OrOperation"}, t1 \in Texts, t2 \in Texts}
    \cup {AndOperation(<<Word(t1), Word(<<"b">>), Word(<<"c">>)>>) : t1 \in Texts}

InitExtract ==
    /\ self = Builder(SHOULD, "text", None, None)
    /\ tree \in ExtractOperations
    /\ delta \in {3, DefaultDelta}
    /\ pc = "ready"
    /\ result = <<>>
    /\ roots = <<>> /\ stack = <<>> /\ heap = <<>> /\ ret = <<>>

\* builder._get_operator_extract(operation, delta)
Extract ==
    /\ pc = "ready"
    /\ result' = _get_operator_extract(tree, delta)
    /\ pc' = "done"
    /\ UNCHANGED <<self, tree, delta, conc>>

NextExtract == Extract

SpecExtract == InitExtract /\ [][NextExtract]_vars

\* The last n characters of a text, and the first n.
Suffix(t, n) == SubSeq(t, Len(t) - n + 1, Len(t))
Prefix(t, n) == SubSeq(t, 1, n)

\* C9: the extract is the operator token between the first and the second
\* operand, with up to delta characters of the first operand right before it
\* and up to delta characters of what follows right after it, for every pair
\* of operand texts and for operations of more than two operands.
C9_ExtractAroundOperator ==
    pc = "done" =>
        LET first == Str(tree.children[1])
            sep == Separator(tree)
            rest == SubSeq(Str(tree), Len(first) + Len(sep) + 1, Len(Str(tree)))
        IN  \E a \in 0..Min(delta, Len(first)), b \in 0..Min(delta, Len(rest)) :
                result = Suffix(first, a) \o sep \o Prefix(rest, b)

----------------------------------------------------------------------------
(* SpecConc: two compilations on one builder instance, interleaved.  A     *)
(* step is one visitor call, one turn of a list comprehension or one       *)
(* return.  Items live on a heap and refer to their children by address;   *)
(* a frame is one pending visitor call.                                    *)

Threads == {1, 2}

Running == [status |-> "running", value |-> 0, error |-> NoError]
Returned(addr) == [status |-> "returned", value |-> addr, error |-> NoError]
Failed(error) == [status |-> "raised", value |-> 0, error |-> error]

\* self.visit(node, parents): a call not yet dispatched.
Frame(p, parents) ==
    [p |-> p, parents |-> parents, state |-> "call", children |-> <<>>,
     validated |-> FALSE, cls |-> "", items |-> <<>>, value |-> 0]

Top(t) == stack[t][Len(stack[t])]
Below(t) == SubSeq(stack[t], 1, Len(stack[t]) - 1)
TopNode(t) == NodeAt(roots[t], Top(t).p)

\* The callers' stack after the top call returned the item at addr: a list
\* comprehension takes it and moves to its next child, any other caller
\* resumes with it.
Deliver(callers, addr) ==
    IF callers = <<>> THEN callers
    ELSE LET caller == callers[Len(callers)] IN
         [callers EXCEPT ![Len(callers)] =
             IF caller.state = "loop"
             THEN [caller EXCEPT !.items = Append(@, addr), !.children = Tail(@)]
             ELSE [caller EXCEPT !.state = "resume", !.value = addr]]

\* The top call of t returns the item at addr.
Return(t, addr) ==
    /\ stack' = [stack EXCEPT ![t] = Deliver(Below(t), addr)]
    /\ ret' = [ret EXCEPT ![t] = IF Below(t) = <<>> THEN Returned(addr) ELSE @]

\* _set_search_field_in_all_children on the heap: fields.insert(0, field_name)
\* on every leaf item reachable from addr.
RECURSIVE HeapSetField(_, _, _)
RECURSIVE HeapSetFieldEach(_, _, _)
HeapSetField(h, addr, field_name) ==
    IF IsAbstractEItem(h[addr])
    THEN [h EXCEPT ![addr].fields = <<field_name>> \o @]
    ELSE HeapSetFieldEach(h, ItemsOf(h[addr]), field_name)

HeapSetFieldEach(h, addrs, field_name) ==
    IF addrs = <<>> THEN h
    ELSE HeapSetFieldEach(HeapSetField(h, Head(addrs), field_name), Tail(addrs), field_name)

\* A faulty variant: the builder keeps the leaf items it built and hands out
\* an equal one again instead of building a new one.
StepLeaf_memoized(t) ==
    /\ stack[t] # <<>>
    /\ Top(t).state = "call"
    /\ TopNode(t).kind \in {"Word", "Phrase", "Range"}
    /\ LET item == Visit(self, roots[t], Top(t).p).item
           same == {a \in 1..Len(heap) : heap[a] = item}
       IN  IF same # {}
           THEN heap' = heap /\ Return(t, CHOOSE a \in same : TRUE)
           ELSE heap' = Append(heap, item) /\ Return(t, Len(heap) + 1)
    /\ UNCHANGED <<self, roots, single>>

\* visit_word, visit_phrase, visit_range: the leaf item is built and returned.
StepLeaf(t) ==
    /\ stack[t] # <<>>
    /\ Top(t).state = "call"
    /\ TopNode(t).kind \in {"Word", "Phrase", "Range"}
    /\ heap' = Append(heap, Visit(self, roots[t], Top(t).p).item)
    /\ Return(t, Len(heap) + 1)
    /\ UNCHANGED <<self, roots, single>>

\* _binary_operation and visit_not up to the list comprehension: the children
\* generators are set up (simplify_if_same, and _yield_nested_children for a
\* binary operation), the item class is chosen.
StepOperation(t) ==
    /\ stack[t] # <<>>
    /\ Top(t).state = "call"
    /\ TopNode(t).kind \in {"AndOperation", "OrOperation", "UnknownOperation",
                            "Plus", "Not", "Prohibit"}
    /\ LET kind == TopNode(t).kind
           cls == CASE kind \in {"AndOperation", "Plus"} -> "EMust"
                    [] kind = "OrOperation" -> "EShould"
                    [] kind = "UnknownOperation" ->
                          (IF self.default_operator = SHOULD THEN "EShould" ELSE "EMust")
                    [] kind \in {"Not", "Prohibit"} -> "EMustNot"
           p == Top(t).p
       IN  stack' = [stack EXCEPT ![t][Len(stack[t])] =
               [@ EXCEPT !.state = "loop",
                         !.children = simplify_if_same(roots[t], ChildPaths(roots[t], p), p),
                         !.validated = kind \notin {"Not", "Prohibit"},
                         !.cls = cls]]
    /\ UNCHANGED <<self, roots, heap, ret, single>>

\* The list comprehension pulls its next child: _yield_nested_children raises.
StepRaise(t) ==
    /\ stack[t] # <<>>
    /\ Top(t).state = "loop"
    /\ Top(t).children # <<>>
    /\ Top(t).validated
    /\ _yield_nested_children(self, TopNode(t), NodeAt(roots[t], Head(Top(t).children)))
    /\ stack' = [stack EXCEPT ![t] = <<>>]
    /\ ret' = [ret EXCEPT ![t] =
                  Failed(OrAndAndOnSameLevel(NodeAt(roots[t], Head(Top(t).children))))]
    /\ UNCHANGED <<self, roots, heap, single>>

\* The list comprehension pulls its next child and visits it.
StepChild(t) ==
    /\ stack[t] # <<>>
    /\ Top(t).state = "loop"
    /\ Top(t).children # <<>>
    /\ ~(/\ Top(t).validated
         /\ _yield_nested_children(self, TopNode(t),
                                   NodeAt(roots[t], Head(Top(t).children))))
    /\ stack' = [stack EXCEPT ![t] =
                    Append(@, Frame(Head(Top(t).children), Append(Top(t).parents, Top(t).p)))]
    /\ UNCHANGED <<self, roots, heap, ret, single>>

\* The list comprehension is exhausted: es_item_factory.build(cls, items).
StepBuild(t) ==
    /\ stack[t] # <<>>
    /\ Top(t).state = "loop"
    /\ Top(t).children = <<>>
    /\ heap' = Append(heap, BuildOperation(Top(t).cls, Top(t).items))
    /\ Return(t, Len(heap) + 1)
    /\ UNCHANGED <<self, roots, single>>

\* visit_group, visit_field_group, visit_boost, visit_fuzzy, visit_proximity,
\* visit_search_field: the one child is visited first.
StepWrapper(t) ==
    /\ stack[t] # <<>>
    /\ Top(t).state = "call"
    /\ TopNode(t).kind \in {"Group", "FieldGroup", "Boost", "Fuzzy", "Proximity",
                            "SearchField"}
    /\ stack' = [stack EXCEPT ![t] =
                    Append([@ EXCEPT ![Len(@)].state = "wait"],
                           Frame(Append(Top(t).p, 1), Append(Top(t).parents, Top(t).p)))]
    /\ UNCHANGED <<self, roots, heap, ret, single>>

\* The rest of those methods, once the child's item is there.
StepResume(t) ==
    /\ stack[t] # <<>>
    /\ Top(t).state = "resume"
    /\ LET node == TopNode(t)
           v == Top(t).value
       IN  CASE node.kind \in {"Group", "FieldGroup"} ->
                    heap' = heap /\ Return(t, v)
             [] node.kind = "Boost" ->
                    /\ heap' = [heap EXCEPT ![v] = SetAttr(@, "boost", Float(node.force))]
                    /\ Return(t, v)
             [] node.kind = "Fuzzy" ->
                    /\ heap' = [heap EXCEPT ![v] = SetAttr(@, "fuzziness", Float(node.degree))]
                    /\ Return(t, v)
             [] node.kind = "Proximity" ->
                    /\ heap' = [heap EXCEPT ![v] = SetAttr(@, "slop", Float(node.degree))]
                    /\ Return(t, v)
             [] node.kind = "SearchField" ->
                    IF _is_nested(self, node)
                    THEN /\ heap' = HeapSetField(Append(heap, BuildNested(node.name, v)),
                                                 v, node.name)
                         /\ Return(t, Len(heap) + 1)
                    ELSE /\ heap' = HeapSetField(heap, v, node.name)
                         /\ Return(t, v)
    /\ UNCHANGED <<self, roots, single>>

ConcTreesOfSize[n \in 1..(MaxConcNodes + 1)] == TreesOfSize[n]

ConcTrees == UNION {ConcTreesOfSize[n] : n \in 1..MaxConcNodes}

\* The second compilation runs on a query of the documentation.
ConcQueries ==
    {QueryOrAnd, QueryFieldGroup, QueryNested, QueryUnknown,
     SearchField("f", Boost(WordA, 2)), Not(Prohibit(PhraseP))}

InitConc ==
    /\ self \in {Builder(o, "text", None, None) : o \in {SHOULD, MUST}}
    /\ roots \in {<<a, b>> : a \in ConcTrees \cup ConcQueries, b \in ConcQueries}
    /\ stack = [t \in Threads |-> <<Frame(<<>>, <<>>)>>]
    /\ heap = <<>>
    /\ ret = [t \in Threads |-> Running]
    /\ tree = WordA /\ pc = "conc" /\ result = <<>> /\ delta = DefaultDelta

NextConc ==
    \E t \in Threads :
        \/ StepLeaf(t)
        \/ StepOperation(t)
        \/ StepRaise(t)
        \/ StepChild(t)
        \/ StepBuild(t)
        \/ StepWrapper(t)
        \/ StepResume(t)

SpecConc == InitConc /\ [][NextConc]_vars

\* The item tree at an address, and the addresses it is made of.
RECURSIVE Deref(_, _)
Deref(h, addr) ==
    IF IsAbstractEItem(h[addr]) THEN h[addr]
    ELSE IF h[addr].kind = "ENested" THEN [h[addr] EXCEPT !.items = Deref(h, @)]
    ELSE [h[addr] EXCEPT !.items = [i \in 1..Len(@) |-> Deref(h, @[i])]]

RECURSIVE Reach(_, _)
Reach(h, addr) ==
    {addr} \cup (IF IsAbstractEItem(h[addr]) THEN {}
                 ELSE UNION {Reach(h, ItemsOf(h[addr])[i]) : i \in 1..Len(ItemsOf(h[addr]))})

\* C8: no step of a compilation writes the builder instance or a tree; in
\* every interleaving each compilation returns the item tree (or raises the
\* error) it does when run alone; and no item is reachable from both results.
C8_IndependentCompilations ==
    /\ [][self' = self /\ roots' = roots]_vars
    /\ [](\A t \in Threads :
            LET alone == Visit(self, roots[t], <<>>) IN
            /\ ret[t].status = "returned" =>
                   alone.ok /\ Deref(heap, ret[t].value) = alone.item
            /\ ret[t].status = "raised" =>
                   ~alone.ok /\ ret[t].error = alone.error)
    /\ []((\A t \in Threads : ret[t].status = "returned") =>
            Reach(heap, ret[1].value) \cap Reach(heap, ret[2].value) = {})

C8_Witness ==
    /\ pc = "conc"
    /\ roots = <<QueryFieldGroup, QueryFieldGroup>>
    /\ \A t \in Threads : ret[t].status = "returned"
    /\ Deref(heap, ret[1].value) = Deref(heap, ret[2].value)
    /\ ret[1].value > ret[2].value
    /\ \E a \in Reach(heap, ret[1].value) : a < ret[2].value

----------------------------------------------------------------------------
(* Vocabulary of the properties. *)

ItemKinds == {"EMust", "EShould", "EMustNot", "ENested"} \cup LeafKinds

\* The boolean kind a node stands for under the builder's default operator.
BoolKind(slf, node) ==
    CASE node.kind = "AndOperation" -> "must"
      [] node.kind = "OrOperation" -> "should"
      [] node.kind = "UnknownOperation" ->
            (IF slf.default_operator = MUST THEN "must" ELSE "should")
      [] OTHER -> "other"

OppositeKinds(k1, k2) == {k1, k2} = {"must", "should"}

\* The children of a node after the children of its own boolean kind are
\* replaced by theirs, recursively.
RECURSIVE SameKindFlat(_, _, _, _)
SameKindFlat(slf, root, children, kind) ==
    IF children = <<>> THEN <<>>
    ELSE (IF BoolKind(slf, NodeAt(root, Head(children))) = kind
              THEN SameKindFlat(slf, root, ChildPaths(root, Head(children)), kind)
              ELSE <<Head(children)>>)
         \o SameKindFlat(slf, root, Tail(children), kind)

Range1(s) == {s[i] : i \in 1..Len(s)}

\* Some must-like or should-like node has, after flattening, a direct child
\* of the opposite kind.
HasOppositePair(slf, root) ==
    \E p \in Paths(root) :
        LET k == BoolKind(slf, NodeAt(root, p)) IN
        /\ k # "other"
        /\ \E c \in Range1(SameKindFlat(slf, root, ChildPaths(root, p), k)) :
               OppositeKinds(k, BoolKind(slf, NodeAt(root, c)))

\* The leaf items of an item tree.
RECURSIVE LeafItems(_)
LeafItems(item) ==
    IF item.kind \in LeafKinds THEN {item}
    ELSE UNION {LeafItems(ItemsOf(item)[i]) : i \in 1..Len(ItemsOf(item))}

\* The composite items of an item tree.
RECURSIVE CompositeItems(_)
CompositeItems(item) ==
    IF item.kind \in LeafKinds THEN {}
    ELSE {item} \cup UNION {CompositeItems(ItemsOf(item)[i]) : i \in 1..Len(ItemsOf(item))}

\* The names of the SearchField nodes strictly above path p, outermost first.
RECURSIVE FieldNamesAbove(_, _, _)
FieldNamesAbove(root, p, n) ==
    IF n >= Len(p) THEN <<>>
    ELSE LET node == NodeAt(root, SubSeq(p, 1, n)) IN
         (IF node.kind = "SearchField" THEN <<node.name>> ELSE <<>>)
         \o FieldNamesAbove(root, p, n + 1)

ScopesOf(root, p) == FieldNamesAbove(root, p, 0)

\* The number of Not and Prohibit nodes strictly above path p.
NegationsAbove(root, p) ==
    Cardinality({n \in 0..(Len(p) - 1) :
                    NodeAt(root, SubSeq(p, 1, n)).kind \in {"Not", "Prohibit"}})

\* <<origin, number of EMustNot items above>> for every leaf of an item tree.
RECURSIVE MustNotDepths(_, _)
MustNotDepths(item, n) ==
    IF item.kind \in LeafKinds THEN {<<item.origin, n>>}
    ELSE UNION {MustNotDepths(ItemsOf(item)[i], IF item.kind = "EMustNot" THEN n + 1 ELSE n)
                : i \in 1..Len(ItemsOf(item))}

\* A SearchField node lies strictly below path p.
HasSearchFieldBelow(root, p) ==
    \E q \in Paths(root) : IsProperPrefix(p, q) /\ NodeAt(root, q).kind = "SearchField"

\* An item tree without the pushed field names.
RECURSIVE Shape(_)
Shape(item) ==
    IF item.kind \in LeafKinds THEN [item EXCEPT !.fields = <<>>]
    ELSE WithItems(item, [i \in 1..Len(ItemsOf(item)) |-> Shape(ItemsOf(item)[i])])

\* The tree with every UnknownOperation replaced by the operation the default
\* operator stands for.
RECURSIVE Resolved(_, _)
Resolved(slf, node) ==
    LET children == [i \in 1..Len(node.children) |-> Resolved(slf, node.children[i])] IN
    IF node.kind = "UnknownOperation"
    THEN (IF slf.default_operator = MUST THEN AndOperation(children)
          ELSE OrOperation(children))
    ELSE [node EXCEPT !.children = children]

----------------------------------------------------------------------------
(* Properties of one compilation (Spec). *)

\* C1: the compilation fails, with OrAndAndOnSameLevel and no item, exactly
\* when some must-like (And, Unknown under MUST) or should-like (Or, Unknown
\* under SHOULD) node has, after same-kind flattening, a direct child of the
\* opposite kind; otherwise it returns an item.  `a OR (b AND c)` succeeds,
\* `a OR b AND c` fails.
C1_AmbiguityIffOppositePair ==
    pc = "done" =>
        /\ ~result.ok <=> HasOppositePair(self, tree)
        /\ ~result.ok => result.error.exc = "OrAndAndOnSameLevel" /\ result.item = NoItem
        /\ result.ok => result.item.kind \in ItemKinds /\ result.error = NoError
        /\ tree = QueryOrGroupAnd => result.ok
        /\ tree = QueryOrAnd => ~result.ok

C1_Witness ==
    /\ pc = "done"
    /\ tree = QueryOrAnd
    /\ ~result.ok
    /\ result.error.exc = "OrAndAndOnSameLevel"

\* C2 (as stated): in every item tree returned, no EMust has an EMust as a
\* direct child and no EShould an EShould; `A AND (B AND (C AND D))` yields one
\* EMust of the four compiled words in order.
C2_NoSameKindChild ==
    pc = "done" /\ result.ok =>
        /\ \A c \in CompositeItems(result.item) :
               c.kind \in {"EMust", "EShould"} =>
                   \A i \in 1..Len(c.items) : c.items[i].kind # c.kind
        /\ tree = QueryAndGrouped =>
               /\ result.item.kind = "EMust"
               /\ [i \in 1..Len(result.item.items) |->
                      IF result.item.items[i].kind = "EWord" THEN result.item.items[i].q
                      ELSE "?"] = <<"A", "B", "C", "D">>

\* C3 (as stated): every leaf of the item tree has as many EMustNot items
\* above it as its node has Not and Prohibit nodes above it, so `NOT NOT A`
\* compiles to EMustNot(EMustNot(A')).
C3_NegationsPreserved ==
    pc = "done" /\ result.ok =>
        \A d \in MustNotDepths(result.item, 0) : d[2] = NegationsAbove(tree, d[1])

\* C4 (as stated): compiling a tree gives the same outcome (the same item tree
\* or a failure in both) as compiling the tree with every UnknownOperation
\* replaced by And (default operator MUST) or Or (SHOULD).
C4_UnknownAsResolved ==
    pc = "done" =>
        LET r == Visit(self, Resolved(self, tree), <<>>) IN
        /\ r.ok = result.ok
        /\ r.item = result.item

\* C7 (as stated): every leaf item whose node has no SearchField above it is
\* built with the builder's default_field, which is its effective field.
C7_DefaultField ==
    pc = "done" /\ result.ok =>
        \A leaf \in LeafItems(result.item) :
            ScopesOf(tree, leaf.origin) = <<>> =>
                /\ "default_field" \in DOMAIN leaf
                /\ leaf.default_field = self.default_field
                /\ EffectiveField(leaf) = self.default_field

\* C5: visit_search_field returns an ENested item with nested_path = the
\* node's name around the compiled child exactly when a SearchField node lies
\* strictly below the node, at any depth, and the compiled child itself
\* otherwise, whatever nested_fields the builder was given.
\* `illustrators:(nationality:UK)` yields ENested(illustrators) around a word
\* of field illustrators.nationality.
C5_NestedIffFieldBelow ==
    pc = "done" =>
        /\ \A p \in Paths(tree) :
               NodeAt(tree, p).kind = "SearchField" =>
                   LET r == Visit(self, tree, p)
                       c == Visit(self, tree, Append(p, 1))
                   IN  /\ r.ok = c.ok
                       /\ r.ok =>
                            IF HasSearchFieldBelow(tree, p)
                            THEN /\ r.item.kind = "ENested"
                                 /\ r.item.nested_path = NodeAt(tree, p).name
                                 /\ Shape(r.item.items) = Shape(c.item)
                            ELSE Shape(r.item) = Shape(c.item)
        /\ tree = QueryNested =>
               /\ result.ok
               /\ result.item.kind = "ENested"
               /\ result.item.nested_path = "illustrators"
               /\ result.item.items.kind = "EWord"
               /\ EffectiveField(result.item.items) = "illustrators.nationality"

C5_Witness ==
    /\ pc = "done"
    /\ tree = QueryNested
    /\ self.nested_fields = <<>>
    /\ result.ok
    /\ result.item.kind = "ENested"

\* C6: after a successful compilation the `fields` of every leaf item are
\* exactly the names of the SearchField nodes above its node, each once,
\* outermost first, through any number of composite, group or nested levels;
\* when there is one, the effective field is their dotted join, without the
\* default field (`title:Phoenix` and every leaf of `title:(Phoenix AND
\* Potter)` have effective field `title`).
C6_FieldsAreScopes ==
    pc = "done" /\ result.ok =>
        /\ \A leaf \in LeafItems(result.item) :
               LET names == ScopesOf(tree, leaf.origin) IN
               /\ leaf.fields = names
               /\ names # <<>> => EffectiveField(leaf) = DottedJoin(names)
        /\ tree \in {QueryTitle, QueryFieldGroup} =>
               \A leaf \in LeafItems(result.item) : EffectiveField(leaf) = "title"

C6_Witness ==
    /\ pc = "done"
    /\ tree = QueryNested3
    /\ result.ok
    /\ \E leaf \in LeafItems(result.item) :
           leaf.fields = <<"f", "g", "h">> /\ EffectiveField(leaf) = "f.g.h"

\* The "visit" events of a log.
VisitedPaths(log) == {log[i].at : i \in {j \in 1..Len(log) : log[j].ev = "visit"}}

VisitIndex(log, p) == CHOOSE i \in 1..Len(log) : log[i].ev = "visit" /\ log[i].at = p

\* The first child of the opposite kind among the flattened children, 0 when
\* there is none.
FirstOpposite(slf, root, p, flat) ==
    LET bad == {i \in 1..Len(flat) :
                   OppositeKinds(BoolKind(slf, NodeAt(root, p)),
                                 BoolKind(slf, NodeAt(root, flat[i])))}
    IN  IF bad = {} THEN 0 ELSE CHOOSE i \in bad : \A j \in bad : i <= j

\* C10 (as stated): when a visited And/Or/Unknown node has, after flattening, a
\* child of the opposite kind, its error is raised before any of its children
\* is visited, and it is the error that propagates.
C10_ValidateBeforeDescend ==
    pc = "done" =>
        \A p \in VisitedPaths(result.log) :
            LET flat == simplify_if_same(tree, ChildPaths(tree, p), p) IN
            FirstOpposite(self, tree, p, flat) # 0 =>
                /\ ~result.ok
                /\ result.log[Len(result.log)] = RaiseEvent(p, flat[FirstOpposite(self, tree, p, flat)])
                /\ \A q \in VisitedPaths(result.log) : ~IsProperPrefix(p, q)

\* C10 (amended): the children are validated one at a time as they are
\* visited.  When a visited And/Or/Unknown node has, after flattening, a child
\* of the opposite kind, the compilation fails; the first such child and the
\* children after it are never visited; and either every child before it was
\* visited, in order, and the node's error for that child is raised, or the
\* error was raised inside the subtree of a child before it, the children up
\* to that one were visited and none after it.
C10_ValidateWhileDescending ==
    pc = "done" =>
        \A p \in VisitedPaths(result.log) :
            LET flat == simplify_if_same(tree, ChildPaths(tree, p), p)
                k == FirstOpposite(self, tree, p, flat)
                last == result.log[Len(result.log)]
                seen == VisitedPaths(result.log)
            IN  k # 0 =>
                /\ ~result.ok
                /\ last.ev = "raise"
                /\ result.error.exc = "OrAndAndOnSameLevel"
                /\ \A j \in k..Len(flat) : \A q \in seen : ~IsPrefix(flat[j], q)
                /\ \/ /\ last = RaiseEvent(p, flat[k])
                      /\ result.error.extract_of = NodeAt(tree, flat[k])
                      /\ \A j \in 1..(k - 1) : flat[j] \in seen
                      /\ \A i, j \in 1..(k - 1) :
                             i < j => VisitIndex(result.log, flat[i])
                                          < VisitIndex(result.log, flat[j])
                   \/ \E j \in 1..(k - 1) :
                      /\ IsPrefix(flat[j], last.at)
                      /\ \A i \in 1..j : flat[i] \in seen
                      /\ \A i \in (j + 1)..Len(flat) : flat[i] \notin seen

C10_Witness ==
    /\ pc = "done"
    /\ tree = QuerySiblingFirst
    /\ ~result.ok
    /\ result.log[Len(result.log)] = RaiseEvent(<<1, 1>>, <<1, 1, 2>>)
    /\ <<1, 1, 1>> \in VisitedPaths(result.log)

=============================================================================
